---- MODULE Spec2Model ----
(***************************************************************************)
(* vpk-rs, src/entry.rs: the entry header (VPKDirectoryEntry), the entry   *)
(* (VPKEntry) and the reader that stitches the preloaded bytes and a       *)
(* bounded window of an archive file into one byte stream                  *)
(* (VPKEntryReader).                                                       *)
(*                                                                         *)
(* Storage is an archive file `blob` shared by every entry that has an     *)
(* archive path.  Each reader owns a handle (absolute position `pos`) that *)
(* is wrapped in a Take (`limit` bytes left).  An archive read is          *)
(* asynchronous: one poll of it ends Pending, with an I/O error, or Ready  *)
(* with a count of bytes that may be short.                                *)
(***************************************************************************)
EXTENDS Integers, Sequences, FiniteSets, TLC

\* ------------------------------------------------------------- bounds
MaxPreload == 2   \* longest preload buffer
MaxFileLen == 2   \* largest dir_entry.file_length
MaxOffset  == 1   \* largest dir_entry.archive_offset
MaxBlob    == 3   \* longest archive file
MaxDst     == 3   \* largest destination buffer handed to poll_read
ConcLen    == 2   \* file_length of the entries that two callers read at once
MaxPad     == 1   \* most bytes of the directory index before a header

Tasks == {"a", "b"}   \* callers that drive one reader each

Min(a, b) == IF a < b THEN a ELSE b
Max(a, b) == IF a > b THEN a ELSE b

\* Byte values are chosen so that every preload byte and every archive byte
\* is told apart from every other.
PreloadBytes(e, n) == [i \in 1..n |-> 10 * e + i]
BlobBytes(n) == [i \in 1..n |-> 100 + (i - 1)]

VARIABLES
    entries,   \* the tree: a sequence of VPKEntry sharing one archive file
    blob,      \* the bytes of the archive file
    tasks,     \* Tasks -> the caller's session: its reader, what it got so far
    src,       \* header decoding: the bytes of the directory index
    cursor,    \* header decoding: position of the byte cursor in src
    decoded,   \* header decoding: the result of the decode
    written    \* header decoding: the header whose record was put in src,
               \* where the record begins (at) and how much of it is there (keep)

vars == <<entries, blob, tasks, src, cursor, decoded, written>>

\* ------------------------------------------------------------- VPKEntry
\* struct VPKDirectoryEntry: the six fields, in declaration order.
VPKDirectoryEntry(crc, pl, ai, off, len, suffix) ==
    [crc32 |-> crc, preload_length |-> pl, archive_index |-> ai,
     archive_offset |-> off, file_length |-> len, suffix |-> suffix]

\* struct VPKEntry. archive_path is "none" (None) or the path of the archive.
VPKEntry(de, path, data) ==
    [dir_entry |-> de, archive_path |-> path, preload_data |-> data]

\* ------------------------------------------------------------- readers
NoFile == [pos |-> 0, limit |-> 0]

\* A task that holds no reader.
NoReader ==
    [variant |-> "none", preloaded_data |-> 0, preloaded_data_len |-> 0,
     preloaded_bytes_read |-> 0, file |-> NoFile]

\* VPKEntryReader::new. preloaded_data is the position of the Cursor over the
\* borrowed preload buffer; hasFile is Some/None of the Take<File>.
VPKEntryReader_new(data, hasFile, file) ==
    IF hasFile
    THEN IF Len(data) = 0
         THEN [variant |-> "FileOnly", preloaded_data |-> 0,
               preloaded_data_len |-> 0, preloaded_bytes_read |-> 0,
               file |-> file]
         ELSE [variant |-> "PreloadAndFile", preloaded_data |-> 0,
               preloaded_data_len |-> Len(data), preloaded_bytes_read |-> 0,
               file |-> file]
    ELSE [variant |-> "PreloadedOnly", preloaded_data |-> 0,
          preloaded_data_len |-> 0, preloaded_bytes_read |-> 0,
          file |-> NoFile]

\* ------------------------------------------------------------- storage
\* What one poll of the archive file can give: not ready, an I/O error, or
\* ready with up to that many bytes (a read may be short).
IoOutcomes ==
    {[res |-> "Pending", n |-> 0], [res |-> "Err", n |-> 0]}
        \cup {[res |-> "Ok", n |-> k] : k \in 1..MaxDst}

\* std::io::Cursor<&[u8]>::read: copies what is left of data, up to d bytes,
\* and advances the position. Never fails, never suspends.
CursorRead(pos, data, d) ==
    LET n == Min(d, Len(data) - pos)
    IN  [pos |-> pos + n, n |-> n, bytes |-> SubSeq(data, pos + 1, pos + n)]

\* async_fs::File::poll_read at absolute position pos, into max bytes.
FileRead(pos, bytes, max, io) ==
    IF io.res # "Ok" THEN [res |-> io.res, n |-> 0, bytes |-> <<>>]
    ELSE LET k == Min(io.n, Min(max, Max(0, Len(bytes) - pos)))
         IN  [res |-> "Ok", n |-> k, bytes |-> SubSeq(bytes, pos + 1, pos + k)]

\* Mutant of TakeRead: the end of the file before the limit is an error.
TakeRead_strict(file, bytes, n, io) ==
    IF file.limit = 0
    THEN [file |-> file, res |-> "Ok", n |-> 0, bytes |-> <<>>, asked |-> FALSE]
    ELSE LET r == FileRead(file.pos, bytes, Min(n, file.limit), io)
         IN  [file |-> [pos |-> file.pos + r.n, limit |-> file.limit - r.n],
              res |-> IF r.res = "Ok" /\ r.n = 0 THEN "Err" ELSE r.res,
              n |-> r.n, bytes |-> r.bytes, asked |-> TRUE]

\* Mutant of TakeRead: the limit is not applied.
TakeRead_unbounded(file, bytes, n, io) ==
    LET r == FileRead(file.pos, bytes, n, io)
    IN  [file |-> [pos |-> file.pos + r.n,
                   limit |-> Max(0, file.limit - r.n)],
         res |-> r.res, n |-> r.n, bytes |-> r.bytes, asked |-> TRUE]

\* Take<File>::poll_read, the handle made by file.take(file_length): at limit
\* 0 it is at end-of-data without touching the file; otherwise it reads at
\* most limit bytes and counts them off. asked: the file itself was read.
TakeRead(file, bytes, n, io) ==
    IF file.limit = 0
    THEN [file |-> file, res |-> "Ok", n |-> 0, bytes |-> <<>>, asked |-> FALSE]
    ELSE LET r == FileRead(file.pos, bytes, Min(n, file.limit), io)
         IN  [file |-> [pos |-> file.pos + r.n, limit |-> file.limit - r.n],
              res |-> r.res, n |-> r.n, bytes |-> r.bytes, asked |-> TRUE]

\* ------------------------------------------------------------- poll_read
\* VPKEntryReader::poll_read with a destination of d bytes. data is the
\* borrowed preload buffer, bytes the archive file, io the outcome of the
\* archive read should the call make one. Gives the reader afterwards, the
\* result (Ok n / Pending / Err), the bytes reported to the caller, and
\* whether the archive file was read (asked).
PreloadedOnly_poll_read(rd, data, d) ==
    LET c == CursorRead(rd.preloaded_data, data, d)
    IN  [rd |-> [rd EXCEPT !.preloaded_data = c.pos],
         res |-> "Ok", n |-> c.n, bytes |-> c.bytes, asked |-> FALSE]

FileOnly_poll_read(rd, bytes, d, io) ==
    LET f == TakeRead(rd.file, bytes, d, io)
    IN  [rd |-> [rd EXCEPT !.file = f.file],
         res |-> f.res, n |-> f.n, bytes |-> f.bytes, asked |-> f.asked]

\* Mutant of PreloadAndFile_poll_read: once the preloaded bytes are counted
\* as read the reader turns into a FileOnly reader.
PreloadAndFile_poll_read_demote(rd, data, bytes, d, io) ==
    IF rd.preloaded_bytes_read >= rd.preloaded_data_len
    THEN LET p == FileOnly_poll_read(rd, bytes, d, io)
         IN  [p EXCEPT !.rd.variant = "FileOnly"]
    ELSE LET c  == CursorRead(rd.preloaded_data, data, d)
             r1 == [rd EXCEPT !.preloaded_data = c.pos]
         IN  IF c.n < d
             THEN LET f == TakeRead(rd.file, bytes, d - c.n, io)
                  IN  IF f.res = "Ok"
                      THEN [rd |-> [r1 EXCEPT
                                      !.file = f.file,
                                      !.preloaded_bytes_read = @ + c.n + f.n],
                            res |-> "Ok", n |-> c.n + f.n,
                            bytes |-> c.bytes \o f.bytes, asked |-> f.asked]
                      ELSE [rd |-> r1, res |-> f.res, n |-> 0, bytes |-> <<>>,
                            asked |-> f.asked]
             ELSE [rd |-> [r1 EXCEPT !.preloaded_bytes_read = @ + c.n],
                   res |-> "Ok", n |-> c.n, bytes |-> c.bytes,
                   asked |-> FALSE]

\* Mutant of PreloadAndFile_poll_read: a read that the preloaded bytes
\* cannot fill gives the preloaded bytes that are left and leaves the archive
\* to the next call.
PreloadAndFile_poll_read_two_calls(rd, data, bytes, d, io) ==
    IF rd.preloaded_data >= rd.preloaded_data_len
    THEN FileOnly_poll_read(rd, bytes, d, io)
    ELSE LET c == CursorRead(rd.preloaded_data, data, d)
         IN  [rd |-> [rd EXCEPT !.preloaded_data = c.pos,
                                !.preloaded_bytes_read = @ + c.n],
              res |-> "Ok", n |-> c.n, bytes |-> c.bytes, asked |-> FALSE]

PreloadAndFile_poll_read(rd, data, bytes, d, io) ==
    IF rd.preloaded_bytes_read >= rd.preloaded_data_len
    THEN FileOnly_poll_read(rd, bytes, d, io)
    ELSE LET c  == CursorRead(rd.preloaded_data, data, d)
             r1 == [rd EXCEPT !.preloaded_data = c.pos]
         IN  IF c.n < d
             THEN LET f == TakeRead(rd.file, bytes, d - c.n, io)
                  IN  IF f.res = "Ok"
                      THEN [rd |-> [r1 EXCEPT
                                      !.file = f.file,
                                      !.preloaded_bytes_read = @ + c.n + f.n],
                            res |-> "Ok", n |-> c.n + f.n,
                            bytes |-> c.bytes \o f.bytes, asked |-> f.asked]
                      \* ready! / ? return early: the cursor has moved, the
                      \* count has not, and the caller is told of no byte
                      ELSE [rd |-> r1, res |-> f.res, n |-> 0, bytes |-> <<>>,
                            asked |-> f.asked]
             ELSE [rd |-> [r1 EXCEPT !.preloaded_bytes_read = @ + c.n],
                   res |-> "Ok", n |-> c.n, bytes |-> c.bytes,
                   asked |-> FALSE]

poll_read(rd, data, bytes, d, io) ==
    CASE rd.variant = "PreloadedOnly" -> PreloadedOnly_poll_read(rd, data, d)
      [] rd.variant = "PreloadAndFile" ->
            PreloadAndFile_poll_read(rd, data, bytes, d, io)
      [] rd.variant = "FileOnly" -> FileOnly_poll_read(rd, bytes, d, io)

\* ------------------------------------------------------------- reader()
\* What opening the archive can give.
OpenOutcomes == {"ok", "open_err", "seek_err"}

\* Mutant of reader: a failure to open or seek falls back on the preloaded
\* bytes.
reader_fallback(self, st) ==
    IF self.archive_path = "none" \/ st # "ok"
    THEN [res |-> "Ok",
          opens |-> IF self.archive_path = "none" THEN 0 ELSE 1,
          seeks |-> IF self.archive_path = "none" \/ st = "open_err"
                    THEN 0 ELSE 1,
          rd |-> VPKEntryReader_new(self.preload_data, FALSE, NoFile)]
    ELSE [res |-> "Ok", opens |-> 1, seeks |-> 1,
          rd |-> VPKEntryReader_new(
                     self.preload_data, TRUE,
                     [pos |-> self.dir_entry.archive_offset,
                      limit |-> self.dir_entry.file_length])]

\* Mutant of reader: the archive is opened whether or not there is a path.
reader_open_always(self, st) ==
    IF st = "open_err"
    THEN [res |-> "Err", opens |-> 1, seeks |-> 0, rd |-> NoReader]
    ELSE IF st = "seek_err"
    THEN [res |-> "Err", opens |-> 1, seeks |-> 1, rd |-> NoReader]
    ELSE [res |-> "Ok", opens |-> 1, seeks |-> 1,
          rd |-> VPKEntryReader_new(
                     self.preload_data, TRUE,
                     [pos |-> self.dir_entry.archive_offset,
                      limit |-> self.dir_entry.file_length])]

\* Mutant of reader: an entry with file_length 0 gets a reader over the
\* preloaded data alone, and the archive is neither opened nor seeked.
reader_skip_empty(self, st) ==
    IF self.archive_path = "none" \/ self.dir_entry.file_length = 0
    THEN [res |-> "Ok", opens |-> 0, seeks |-> 0,
          rd |-> VPKEntryReader_new(self.preload_data, FALSE, NoFile)]
    ELSE reader_open_always(self, st)

\* VPKEntry::reader. opens and seeks count the storage calls it made.
reader(self, st) ==
    IF self.archive_path = "none"
    THEN [res |-> "Ok", opens |-> 0, seeks |-> 0,
          rd |-> VPKEntryReader_new(self.preload_data, FALSE, NoFile)]
    ELSE IF st = "open_err"
    THEN [res |-> "Err", opens |-> 1, seeks |-> 0, rd |-> NoReader]
    ELSE IF st = "seek_err"
    THEN [res |-> "Err", opens |-> 1, seeks |-> 1, rd |-> NoReader]
    ELSE [res |-> "Ok", opens |-> 1, seeks |-> 1,
          rd |-> VPKEntryReader_new(
                     self.preload_data, TRUE,
                     [pos |-> self.dir_entry.archive_offset,
                      limit |-> self.dir_entry.file_length])]

\* ------------------------------------------------------------- callers
\* A caller is idle, or holds a reader it reads from ("reading"), or is done:
\* kind "get" is VPKEntry::get (reader, then read_to_end); kind "stream" is a
\* caller that made the reader itself and reads with buffers of its choice.
\*   out    the bytes reported so far (get: the Vec read_to_end fills)
\*   res,n  the result of the last read (Ok n / Pending / Err; none before
\*          the first), or Err when reader() failed
\*   want   get only: the destination size of a read that is pending
\*   fault  the storage reported an error in the last call
IdleTask ==
    [pc |-> "idle", kind |-> "none", entry |-> 0, rd |-> NoReader,
     out |-> <<>>, res |-> "none", n |-> 0, opens |-> 0, seeks |-> 0,
     want |-> 0, fault |-> FALSE, oks |-> 0]

\* The first half of get, and a stream caller's call of reader().
Start(t) ==
    /\ tasks[t].pc = "idle"
    /\ \E k \in {"get", "stream"}, e \in DOMAIN entries, st \in OpenOutcomes :
         LET r == reader(entries[e], st)
         IN  /\ r.opens = 0 => st = "ok"   \* no storage call, no outcome
             /\ tasks' = [tasks EXCEPT ![t] =
                  [IdleTask EXCEPT
                     !.pc = IF r.res = "Ok" THEN "reading" ELSE "done",
                     !.kind = k, !.entry = e, !.rd = r.rd,
                     !.res = IF r.res = "Ok" THEN "none" ELSE "Err",
                     !.opens = r.opens, !.seeks = r.seeks,
                     !.fault = (st # "ok")]]
    /\ UNCHANGED <<entries, blob, src, cursor, decoded, written>>

\* Mutant of PollTasks: the readers of one archive share one file position
\* (a handle cloned instead of opened), so a read by t moves the others too.
PollTasks_shared(ts, es, bytes, t, d, io) ==
    LET T == ts[t]
        r == poll_read(T.rd, es[T.entry].preload_data, bytes, d, io)
        isGet == T.kind = "get"
        moved == r.rd.file.pos - T.rd.file.pos
    IN  [u \in DOMAIN ts |->
            IF u = t
            THEN [T EXCEPT
                    !.rd = r.rd, !.res = r.res, !.n = r.n,
                    !.out = @ \o r.bytes,
                    !.fault = (io.res = "Err"),
                    !.oks = IF isGet /\ r.res = "Ok" THEN @ + 1 ELSE @,
                    !.want = IF isGet /\ r.res = "Pending" THEN d ELSE 0,
                    !.pc = IF isGet /\ (r.res = "Err"
                                        \/ (r.res = "Ok" /\ r.n = 0))
                           THEN "done" ELSE "reading"]
            ELSE IF ts[u].rd.variant \in {"PreloadAndFile", "FileOnly"}
            THEN [ts[u] EXCEPT !.rd.file.pos = @ + moved]
            ELSE ts[u]]

\* Mutant of PollTasks: a read that was not ready seeks the handle back to
\* archive_offset before the next try.
PollTasks_reseek(ts, es, bytes, t, d, io) ==
    LET T == ts[t]
        r == poll_read(T.rd, es[T.entry].preload_data, bytes, d, io)
        isGet == T.kind = "get"
        again == r.res = "Pending"
    IN  [ts EXCEPT ![t] =
            [T EXCEPT
               !.rd = IF again
                      THEN [r.rd EXCEPT !.file.pos =
                              es[T.entry].dir_entry.archive_offset]
                      ELSE r.rd,
               !.seeks = IF again THEN 2 ELSE @,
               !.res = r.res, !.n = r.n,
               !.out = @ \o r.bytes,
               !.fault = (io.res = "Err"),
               !.oks = IF isGet /\ r.res = "Ok" THEN @ + 1 ELSE @,
               !.want = IF isGet /\ r.res = "Pending" THEN d ELSE 0,
               !.pc = IF isGet /\ (r.res = "Err" \/ (r.res = "Ok" /\ r.n = 0))
                      THEN "done" ELSE "reading"]]

\* Mutant of PollTasks: read_to_end tries again after an error instead of
\* returning it.
PollTasks_retry_err(ts, es, bytes, t, d, io) ==
    LET T == ts[t]
        r == poll_read(T.rd, es[T.entry].preload_data, bytes, d, io)
        isGet == T.kind = "get"
    IN  [ts EXCEPT ![t] =
            [T EXCEPT
               !.rd = r.rd, !.res = r.res, !.n = r.n,
               !.out = @ \o r.bytes,
               !.fault = (io.res = "Err"),
               !.oks = IF isGet /\ r.res = "Ok" THEN @ + 1 ELSE @,
               !.want = IF isGet /\ r.res = "Pending" THEN d ELSE 0,
               !.pc = IF isGet /\ r.res = "Ok" /\ r.n = 0
                      THEN "done" ELSE "reading"]]

\* The callers after caller t has polled its reader with a destination of d
\* bytes and archive outcome io: by read_to_end (get), which goes on until
\* Ok(0) or an error and polls a pending read again with the same buffer; or
\* by a stream caller. poll_read has the reader by &mut: only t's changes.
\* oks counts the reads read_to_end has had Ok from.
PollTasks(ts, es, bytes, t, d, io) ==
    LET T == ts[t]
        r == poll_read(T.rd, es[T.entry].preload_data, bytes, d, io)
        isGet == T.kind = "get"
    IN  [ts EXCEPT ![t] =
            [T EXCEPT
               !.rd = r.rd, !.res = r.res, !.n = r.n,
               !.out = @ \o r.bytes,
               !.fault = (io.res = "Err"),
               !.oks = IF isGet /\ r.res = "Ok" THEN @ + 1 ELSE @,
               !.want = IF isGet /\ r.res = "Pending" THEN d ELSE 0,
               !.pc = IF isGet /\ (r.res = "Err" \/ (r.res = "Ok" /\ r.n = 0))
                      THEN "done" ELSE "reading"]]

Poll(t) ==
    /\ tasks[t].pc = "reading"
    /\ \E d \in 1..MaxDst, io \in IoOutcomes :
         /\ tasks[t].want # 0 => d = tasks[t].want
         \* an outcome is drawn only when the archive file is read
         /\ ~poll_read(tasks[t].rd, entries[tasks[t].entry].preload_data,
                       blob, d, io).asked
               => io = [res |-> "Ok", n |-> MaxDst]
         /\ tasks' = PollTasks(tasks, entries, blob, t, d, io)
    /\ UNCHANGED <<entries, blob, src, cursor, decoded, written>>

\* The caller lets go of its reader (finished, or abandoned half-way) and of
\* what it read; the handle is closed with it.
Drop(t) ==
    /\ tasks[t].pc \in {"reading", "done"}
    /\ tasks' = [tasks EXCEPT ![t] = IdleTask]
    /\ UNCHANGED <<entries, blob, src, cursor, decoded, written>>

\* ------------------------------------------------------------- header
\* The wire form of an unsigned integer of w bytes, least significant first.
LEBytes(v, w) == [i \in 1..w |-> (v \div (256 ^ (i - 1))) % 256]

\* The record of a header: the six fields in order, little-endian
\* (4 + 2 + 2 + 4 + 4 + 2 bytes).
encode(h) ==
    LEBytes(h.crc32, 4) \o LEBytes(h.preload_length, 2)
        \o LEBytes(h.archive_index, 2) \o LEBytes(h.archive_offset, 4)
        \o LEBytes(h.file_length, 4) \o LEBytes(h.suffix, 2)

RECURSIVE UIntLE(_)
UIntLE(bs) == IF bs = <<>> THEN 0 ELSE Head(bs) + 256 * UIntLE(Tail(bs))

RECURSIVE UIntBE(_)
UIntBE(bs) ==
    IF bs = <<>> THEN 0
    ELSE Head(bs) * (256 ^ (Len(bs) - 1)) + UIntBE(Tail(bs))

\* Mutant of ReadUInt: bytes missing at the end of the source are read as 0.
ReadUInt_zero_fill(st, bs, w, endian) ==
    LET raw == [i \in 1..w |->
                  IF st.pos + i <= Len(bs) THEN bs[st.pos + i] ELSE 0]
        v   == IF endian = "little" THEN UIntLE(raw) ELSE UIntBE(raw)
    IN  [ok |-> TRUE, pos |-> st.pos + w, vals |-> Append(st.vals, v)]

\* binrw's read of one unsigned integer of w bytes in the given byte order,
\* as a step of the derived reader: st is [ok, pos, vals]; the read fails when
\* fewer than w bytes are left, and nothing after a failure is read.
ReadUInt(st, bs, w, endian) ==
    IF ~st.ok THEN st
    ELSE IF st.pos + w > Len(bs) THEN [st EXCEPT !.ok = FALSE]
    ELSE LET raw == SubSeq(bs, st.pos + 1, st.pos + w)
             v   == IF endian = "little" THEN UIntLE(raw) ELSE UIntBE(raw)
         IN  [ok |-> TRUE, pos |-> st.pos + w, vals |-> Append(st.vals, v)]

\* Mutant of VPKDirectoryEntry_read: the suffix is checked against 0xFFFF.
VPKDirectoryEntry_read_checked(bs, pos, endian) ==
    LET s0 == [ok |-> TRUE, pos |-> pos, vals |-> <<>>]
        s1 == ReadUInt(s0, bs, 4, endian)
        s2 == ReadUInt(s1, bs, 2, endian)
        s3 == ReadUInt(s2, bs, 2, endian)
        s4 == ReadUInt(s3, bs, 4, endian)
        s5 == ReadUInt(s4, bs, 4, endian)
        s6 == ReadUInt(s5, bs, 2, endian)
    IN  IF s6.ok /\ s6.vals[6] = 65535
        THEN [res |-> "Ok", pos |-> s6.pos, reach |-> s6.pos,
              hdr |-> VPKDirectoryEntry(s6.vals[1], s6.vals[2], s6.vals[3],
                                        s6.vals[4], s6.vals[5], s6.vals[6])]
        ELSE [res |-> "Err", pos |-> pos, hdr |-> <<>>, reach |-> s6.pos]

\* Mutant of VPKDirectoryEntry_read: archive_index is declared, and so read,
\* before preload_length.
VPKDirectoryEntry_read_swapped(bs, pos, endian) ==
    LET s0 == [ok |-> TRUE, pos |-> pos, vals |-> <<>>]
        s1 == ReadUInt(s0, bs, 4, endian)
        s2 == ReadUInt(s1, bs, 2, endian)
        s3 == ReadUInt(s2, bs, 2, endian)
        s4 == ReadUInt(s3, bs, 4, endian)
        s5 == ReadUInt(s4, bs, 4, endian)
        s6 == ReadUInt(s5, bs, 2, endian)
    IN  IF s6.ok
        THEN [res |-> "Ok", pos |-> s6.pos, reach |-> s6.pos,
              hdr |-> VPKDirectoryEntry(s6.vals[1], s6.vals[3], s6.vals[2],
                                        s6.vals[4], s6.vals[5], s6.vals[6])]
        ELSE [res |-> "Err", pos |-> pos, hdr |-> <<>>, reach |-> s6.pos]

\* #[derive(BinRead)] struct VPKDirectoryEntry: the fields are read one after
\* the other in declaration order, u32 u16 u16 u32 u32 u16, in the byte order
\* the caller asks for, and no field is checked. On failure the position
\* is put back where the read began. reach is how far into the source the
\* field reads went.
VPKDirectoryEntry_read(bs, pos, endian) ==
    LET s0 == [ok |-> TRUE, pos |-> pos, vals |-> <<>>]
        s1 == ReadUInt(s0, bs, 4, endian)
        s2 == ReadUInt(s1, bs, 2, endian)
        s3 == ReadUInt(s2, bs, 2, endian)
        s4 == ReadUInt(s3, bs, 4, endian)
        s5 == ReadUInt(s4, bs, 4, endian)
        s6 == ReadUInt(s5, bs, 2, endian)
    IN  IF s6.ok
        THEN [res |-> "Ok", pos |-> s6.pos, reach |-> s6.pos,
              hdr |-> VPKDirectoryEntry(s6.vals[1], s6.vals[2], s6.vals[3],
                                        s6.vals[4], s6.vals[5], s6.vals[6])]
        ELSE [res |-> "Err", pos |-> pos, hdr |-> <<>>, reach |-> s6.pos]

\* The directory parser's call: the record is read little-endian.
decode_header(bs, pos) == VPKDirectoryEntry_read(bs, pos, "little")

NotDecoded == [res |-> "none", pos |-> 0, hdr |-> <<>>, reach |-> 0]
NoHeader == [hdr |-> VPKDirectoryEntry(0, 0, 0, 0, 0, 0), at |-> 0, keep |-> 0]

\* Decode the header at the cursor.
Decode ==
    /\ decoded.res = "none"
    /\ LET r == decode_header(src, cursor)
       IN  /\ decoded' = r
           /\ cursor' = r.pos
    /\ UNCHANGED <<entries, blob, tasks, src, written>>

\* ------------------------------------------------------------- Spec
EntrySet(e) ==
    { VPKEntry(VPKDirectoryEntry(0, pl, 0, off, len, 65535), path,
               PreloadBytes(e, pl)) :
        pl \in 0..MaxPreload, off \in 0..MaxOffset, len \in 0..MaxFileLen,
        path \in {"none", "pak01_000.vpk"} }

\* One caller, one entry: every entry, every archive length.
Init ==
    /\ \E e \in EntrySet(1) : entries = <<e>>
    /\ \E n \in 0..MaxBlob : blob = BlobBytes(n)
    /\ tasks = [t \in Tasks |-> IdleTask]
    /\ src = <<>>
    /\ cursor = 0
    /\ decoded = NotDecoded
    /\ written = NoHeader

Next == Start("a") \/ Poll("a") \/ Drop("a")

Spec == Init /\ [][Next]_vars

\* A poll of t's reader whose archive read, if it makes one, is ready.
PollReady(t) == Poll(t) /\ tasks'[t].res # "Pending"

\* The same caller under an executor that polls a reader again once it is
\* woken, and a storage whose suspended reads are completed in the end: a
\* poll that is not Pending is not put off for ever.
SpecLive == Init /\ [][Next]_vars /\ WF_vars(PollReady("a"))

\* Two callers, a tree of two entries in the same archive file, which is
\* long enough for both. Entry 1 has one preloaded byte and its window at the
\* start of the file; entry 2 has none, and its window is the same, or
\* overlaps it, or is disjoint from it. Both callers may read either entry.
InitConc ==
    /\ \E off \in {0, 1, ConcLen} :
         entries =
           << VPKEntry(VPKDirectoryEntry(0, 1, 0, 0, ConcLen, 65535),
                       "pak01_000.vpk", PreloadBytes(1, 1)),
              VPKEntry(VPKDirectoryEntry(0, 0, 0, off, ConcLen, 65535),
                       "pak01_000.vpk", <<>>) >>
    /\ blob = BlobBytes(2 * ConcLen)
    /\ tasks = [t \in Tasks |-> IdleTask]
    /\ src = <<>>
    /\ cursor = 0
    /\ decoded = NotDecoded
    /\ written = NoHeader

NextConc == \E t \in Tasks : Start(t) \/ Poll(t) \/ Drop(t)

SpecConc == InitConc /\ [][NextConc]_vars

\* Header decoding: a directory index that holds MaxPad..0 bytes, then the
\* record of a header, whole or cut short; the cursor is at the record.
\* (TLC's integers are 32 bits signed: the u32 values stay below 2^31.)
HeaderSet ==
    { VPKDirectoryEntry(crc, pl, ai, off, len, suffix) :
        crc \in {0, 1588444911, 2147483647}, pl \in {0, 3, 65535},
        ai \in {0, 32767}, off \in {100, 16909060, 2147483647},
        len \in {7, 65536}, suffix \in {0, 255, 65535} }

InitHdr ==
    /\ \E h \in HeaderSet, pad \in 0..MaxPad :
       \E keep \in 0..Len(encode(h)) :
         /\ written = [hdr |-> h, at |-> pad, keep |-> keep]
         /\ src = [i \in 1..pad |-> 170] \o SubSeq(encode(h), 1, keep)
         /\ cursor = pad
    /\ decoded = NotDecoded
    /\ entries = <<>>
    /\ blob = <<>>
    /\ tasks = [t \in Tasks |-> IdleTask]

NextHdr == Decode

SpecHdr == InitHdr /\ [][NextHdr]_vars

\* ------------------------------------------------------------- claims
EntryOf(t) == entries[tasks[t].entry]
HasPath(e) == e.archive_path # "none"
WindowEnd(e) == e.dir_entry.archive_offset + e.dir_entry.file_length

\* The archive holds the whole window of e / less than that.
Holds(e) == Len(blob) >= WindowEnd(e)
Truncated(e) == HasPath(e) /\ Len(blob) < WindowEnd(e)

\* The bytes of the window of e that the archive has.
Window(e) ==
    IF HasPath(e)
    THEN SubSeq(blob, e.dir_entry.archive_offset + 1,
                Min(WindowEnd(e), Len(blob)))
    ELSE <<>>

\* The logical content of e: the preload buffer, then its window.
Whole(e) == e.preload_data \o Window(e)

\* The archive bytes among the bytes a caller was given.
ArchiveBytes(out) == SelectSeq(out, LAMBDA b : b >= 100)

GetDone(t) == tasks[t].kind = "get" /\ tasks[t].pc = "done"
AtEndOfData(t) ==
    tasks[t].rd.variant # "none" /\ tasks[t].res = "Ok" /\ tasks[t].n = 0

\* C1: for an entry whose archive holds archive_offset + file_length bytes,
\* a get that returns Ok returns the preload buffer followed by the
\* file_length bytes of the archive from archive_offset: all of them, once,
\* in order.
C1_GetReturnsWhole ==
    \A t \in Tasks :
        (GetDone(t) /\ tasks[t].res = "Ok" /\ HasPath(EntryOf(t))
            /\ Holds(EntryOf(t)))
        => tasks[t].out = Whole(EntryOf(t))

\* C2: the stream does not depend on the sizes of the destinations: two
\* callers that have read the same entry up to end-of-data, each with
\* destinations of its own choice, have been given the same bytes.
C2_SameStreamAnySizes ==
    \A t, u \in Tasks :
        (tasks[t].kind = "stream" /\ tasks[u].kind = "stream"
            /\ tasks[t].entry = tasks[u].entry
            /\ AtEndOfData(t) /\ AtEndOfData(u))
        => tasks[t].out = tasks[u].out

\* C3 as claimed: a get on an entry whose archive is shorter than
\* archive_offset + file_length ends with an error.
C3_TruncatedIsError ==
    \A t \in Tasks :
        (GetDone(t) /\ Truncated(EntryOf(t))) => tasks[t].res = "Err"

\* C3 as amended: such a get fails only when the storage reported an error;
\* otherwise it returns Ok with bytes from the front of the preload buffer,
\* then every byte the archive has from archive_offset on: fewer than
\* preload_length + file_length bytes in all (when file_length is not 0).
C3_TruncatedIsShortOk ==
    \A t \in Tasks :
        (GetDone(t) /\ Truncated(EntryOf(t)))
        => LET e == EntryOf(t)
               T == tasks[t]
           IN  /\ T.res \in {"Ok", "Err"}
               /\ T.res = "Err" => T.fault
               /\ T.res = "Ok" =>
                    /\ e.dir_entry.file_length > 0 =>
                         Len(T.out) < Len(e.preload_data)
                                          + e.dir_entry.file_length
                    /\ \E j \in 0..Len(e.preload_data) :
                         T.out = SubSeq(e.preload_data, 1, j) \o Window(e)

\* C3 witness: a get on a truncated archive has returned Ok with the preload
\* buffer and the one archive byte there is, of the two declared.
C3_Witness ==
    \E t \in Tasks :
        /\ GetDone(t) /\ Truncated(EntryOf(t))
        /\ tasks[t].res = "Ok" /\ ~tasks[t].fault
        /\ EntryOf(t).dir_entry.file_length = 2
        /\ Len(EntryOf(t).preload_data) = 2
        /\ Len(tasks[t].out) = 3

\* A decode has been made of a record that is all there: every byte of
\* the six fields.
DecodedWhole ==
    decoded.res # "none" /\ written.keep = Len(encode(written.hdr))

HasHandle(t) == tasks[t].rd.variant \in {"PreloadAndFile", "FileOnly"}

C5_WindowState ==
    \A t \in Tasks :
        HasHandle(t) =>
            LET e == EntryOf(t)
                f == tasks[t].rd.file
            IN  /\ e.dir_entry.archive_offset <= f.pos
                /\ f.pos <= WindowEnd(e)
                /\ f.pos + f.limit <= WindowEnd(e)
                /\ ArchiveBytes(tasks[t].out)
                     = SubSeq(blob, e.dir_entry.archive_offset + 1, f.pos)
                /\ Len(ArchiveBytes(tasks[t].out)) <= e.dir_entry.file_length
                \* the archive is read only after the preload buffer
                /\ f.limit < e.dir_entry.file_length
                     => tasks[t].rd.preloaded_data = Len(e.preload_data)

C5_ReadAtLimit ==
    \A t \in Tasks :
        (/\ HasHandle(t) /\ tasks[t].pc = "reading"
         /\ tasks[t].rd.file.limit = 0
         /\ tasks[t].rd.preloaded_data = Len(EntryOf(t).preload_data)
         /\ tasks'[t] # tasks[t] /\ tasks'[t].pc # "idle")
        => /\ tasks'[t].res = "Ok" /\ tasks'[t].n = 0
           /\ tasks'[t].out = tasks[t].out
           /\ tasks'[t].rd = tasks[t].rd

\* C5: the archive bytes a reader gives are bytes of its window, at most
\* file_length of them (C5_WindowState in every state), and a read at limit 0
\* gives end-of-data however long the file is (C5_ReadAtLimit in every step).
C5_BoundedWindow == []C5_WindowState /\ [][C5_ReadAtLimit]_vars

\* C5 witness: the file is longer than the window, the whole window has been
\* given, and a further read has given end-of-data.
C5_Witness ==
    \E t \in Tasks :
        /\ HasHandle(t) /\ AtEndOfData(t)
        /\ tasks[t].rd.file.limit = 0
        /\ EntryOf(t).dir_entry.file_length = 2
        /\ Len(ArchiveBytes(tasks[t].out)) = 2
        /\ Len(blob) > WindowEnd(EntryOf(t))

\* C6: for an entry with no archive path, reader() makes no storage call and
\* does not fail, no read fails or suspends, what the caller is given is the
\* front of the preload buffer, and get returns Ok with exactly the preload
\* buffer (nothing when it is empty).
C6_NoArchivePath ==
    \A t \in Tasks :
        (tasks[t].pc # "idle" /\ ~HasPath(EntryOf(t)))
        => LET T == tasks[t]
               data == EntryOf(t).preload_data
           IN  /\ T.opens = 0 /\ T.seeks = 0
               /\ T.rd.variant = "PreloadedOnly"
               /\ T.res \in {"none", "Ok"} /\ ~T.fault
               /\ T.out = SubSeq(data, 1, Len(T.out))
               /\ GetDone(t) => T.res = "Ok" /\ T.out = data

\* C6 witness: a get on an entry with no archive path has returned its two
\* preloaded bytes.
C6_Witness ==
    \E t \in Tasks :
        /\ GetDone(t) /\ ~HasPath(EntryOf(t))
        /\ Len(EntryOf(t).preload_data) = 2
        /\ tasks[t].out = EntryOf(t).preload_data

\* C7: when reader() is called on an entry with an archive path and the open
\* or the seek fails, the call ends there with the error: the caller holds
\* no reader and has been given no byte, one open and at most one seek were
\* made; and a caller without a reader is never given a byte.
C7_StartFails ==
    \A t \in Tasks :
        (tasks[t].pc = "idle" /\ tasks'[t].pc # "idle" /\ tasks'[t].fault)
        => /\ tasks'[t].pc = "done" /\ tasks'[t].res = "Err"
           /\ tasks'[t].rd = NoReader
           /\ tasks'[t].out = <<>>
           /\ tasks'[t].opens = 1 /\ tasks'[t].seeks <= 1

C7_NoReaderNoBytes ==
    \A t \in Tasks :
        /\ tasks[t].rd.variant = "none" => tasks[t].out = <<>>
        /\ tasks[t].opens <= 1 /\ tasks[t].seeks <= tasks[t].opens

\* C7: a reader() whose open or seek fails ends with the error, no reader
\* and no byte after one attempt (C7_StartFails in every step), and without
\* a reader no byte is ever given (C7_NoReaderNoBytes in every state).
C7_OpenFailure == []C7_NoReaderNoBytes /\ [][C7_StartFails]_vars

\* C7 witness: the seek failed on an entry that has preloaded bytes: the get
\* is done with the error, after one open and one seek, with no byte.
C7_Witness ==
    \E t \in Tasks :
        /\ GetDone(t) /\ tasks[t].res = "Err" /\ tasks[t].rd = NoReader
        /\ tasks[t].opens = 1 /\ tasks[t].seeks = 1
        /\ Len(EntryOf(t).preload_data) = 2
        /\ tasks[t].out = <<>>

\* C8: readers driven at once do not interfere: a step of one caller changes
\* nothing of the other, nor the entries, nor the archive; and what a caller
\* has been given is fixed by its own entry and the position of its own
\* handle: bytes from the front of its preload buffer, then the archive
\* bytes from its archive_offset up to its position.
C8_OwnStream ==
    \A t \in Tasks :
        HasHandle(t) =>
            LET e == EntryOf(t)
                T == tasks[t]
            IN  /\ \E j \in 0..Len(e.preload_data) :
                     T.out = SubSeq(e.preload_data, 1, j)
                               \o SubSeq(blob, e.dir_entry.archive_offset + 1,
                                         T.rd.file.pos)
                /\ T.rd.file.pos + T.rd.file.limit = WindowEnd(e)

C8_OneAtATime ==
    /\ \A t, u \in Tasks :
         (t # u /\ tasks'[t] # tasks[t]) => tasks'[u] = tasks[u]
    /\ entries' = entries
    /\ blob' = blob

\* C8: under every interleaving of two callers, each has been given what
\* its own entry and handle position fix (C8_OwnStream in every state), and
\* no step of one changes the other (C8_OneAtATime in every step).
C8_NoInterference == []C8_OwnStream /\ [][C8_OneAtATime]_vars

\* C8 witness: both callers are half-way through windows that overlap, at
\* different positions of the archive.
C8_Witness ==
    /\ HasHandle("a") /\ HasHandle("b")
    /\ tasks["a"].entry # tasks["b"].entry
    /\ tasks["a"].rd.file.pos = 1 /\ tasks["b"].rd.file.pos = 2
    /\ tasks["a"].rd.file.limit > 0 /\ tasks["b"].rd.file.limit > 0
    /\ entries[2].dir_entry.archive_offset = 1

\* C9: reading never changes the entry (it does not: no step changes
\* entries), and so a later get on the same entry returns the same bytes
\* as an earlier one: two gets on one entry that returned Ok returned the
\* same bytes.
C9_SameBytesAgain ==
    \A t, u \in Tasks :
        (GetDone(t) /\ GetDone(u) /\ tasks[t].entry = tasks[u].entry
            /\ tasks[t].res = "Ok" /\ tasks[u].res = "Ok")
        => tasks[t].out = tasks[u].out

C11_ShortSourceFails ==
    (decoded.res # "none" /\ Len(src) - written.at < 16)
    => /\ decoded.res = "Err"
       /\ decoded.hdr = <<>>
       /\ decoded.reach <= Len(src)
       /\ cursor <= Len(src)

\* C11 witness: a decode with 15 bytes left, at a cursor that is not at the
\* start of the source, has failed.
C11_Witness ==
    /\ decoded.res = "Err"
    /\ written.at = 1 /\ Len(src) - written.at = 15
    /\ decoded.reach = 13

\* C12: a read that suspends consumes nothing: when a poll of a
\* PreloadAndFile reader gives Pending, the preload cursor and
\* preloaded_bytes_read are what they were before the poll.
C12_PendingConsumesNothing ==
    [][\A t \in Tasks :
         ( /\ tasks[t].pc = "reading"
           /\ tasks[t].rd.variant = "PreloadAndFile"
           /\ tasks'[t] # tasks[t]
           /\ tasks'[t].pc = "reading"
           /\ tasks'[t].res = "Pending" )
         => /\ tasks'[t].rd.preloaded_data = tasks[t].rd.preloaded_data
            /\ tasks'[t].rd.preloaded_bytes_read
                 = tasks[t].rd.preloaded_bytes_read]_vars

\* An entry with an archive path and nothing to read from the archive.
EmptyWindow(e) == HasPath(e) /\ e.dir_entry.file_length = 0

\* C13 as stated: for an entry whose file_length is 0 the reader is over the
\* preloaded data alone even when there is an archive path: the archive is
\* not opened or seeked and making the reader does not fail.
C13_EmptyWindowIsPreloadOnly ==
    \A t \in Tasks :
        (tasks[t].pc # "idle" /\ EntryOf(t).dir_entry.file_length = 0)
        => /\ tasks[t].rd.variant = "PreloadedOnly"
           /\ tasks[t].opens = 0 /\ tasks[t].seeks = 0
           /\ tasks[t].res # "Err"

\* C13: for an entry with an archive path and file_length 0 the archive is
\* still opened, so making the reader can fail; when it succeeds the handle
\* was seeked, the reader is FileOnly (empty preload) or PreloadAndFile, no
\* read suspends or fails, the handle never moves, and the bytes given are
\* preload bytes only: a finished get has the whole preload buffer.
C13_EmptyWindowStillOpens ==
    \A t \in Tasks :
        (tasks[t].pc # "idle" /\ EmptyWindow(EntryOf(t)))
        => LET e == EntryOf(t) IN
           /\ tasks[t].opens = 1
           /\ tasks[t].rd.variant = "none"
                => tasks[t].res = "Err" /\ tasks[t].pc = "done"
           /\ tasks[t].rd.variant # "none"
                => /\ tasks[t].seeks = 1
                   /\ tasks[t].rd.variant
                        = IF e.preload_data = <<>> THEN "FileOnly"
                                                   ELSE "PreloadAndFile"
                   /\ tasks[t].res \in {"none", "Ok"}
                   /\ tasks[t].rd.file.pos = e.dir_entry.archive_offset
                   /\ tasks[t].out
                        = SubSeq(e.preload_data, 1, Len(tasks[t].out))
                   /\ GetDone(t) => tasks[t].out = e.preload_data

\* C13 witness: a get on an entry with a path, file_length 0 and two
\* preloaded bytes has finished through a PreloadAndFile reader.
C13_Witness ==
    \E t \in Tasks :
        /\ GetDone(t) /\ EmptyWindow(EntryOf(t))
        /\ tasks[t].rd.variant = "PreloadAndFile"
        /\ tasks[t].opens = 1 /\ tasks[t].seeks = 1
        /\ tasks[t].out = EntryOf(t).preload_data
        /\ Len(tasks[t].out) = 2

\* The variant VPKEntryReader::new gives for an archive handle being there
\* or not and the preloaded data being empty or not.
VariantFor(handle, data) ==
    IF ~handle THEN "PreloadedOnly"
    ELSE IF data = <<>> THEN "FileOnly" ELSE "PreloadAndFile"

\* C14: in every state of a reader, before and after any reads, its variant
\* is the one two facts of its construction give: no archive handle gives
\* PreloadedOnly, a handle with an empty preload buffer FileOnly, a handle
\* with a non-empty preload buffer PreloadAndFile. A step of a reader that
\* stays alive leaves the variant as it is.
C14_VariantState ==
    \A t \in Tasks :
        tasks[t].rd.variant # "none"
        => tasks[t].rd.variant
             = VariantFor(tasks[t].opens = 1, EntryOf(t).preload_data)

C14_VariantKept ==
    \A t \in Tasks :
        (tasks[t].rd.variant # "none" /\ tasks'[t].pc # "idle")
        => tasks'[t].rd.variant = tasks[t].rd.variant

\* C14: the variant of a reader is fixed by whether it has an archive handle
\* and whether its preload buffer is empty (C14_VariantState in every state)
\* and no read changes it (C14_VariantKept in every step).
C14_VariantFixed == []C14_VariantState /\ [][C14_VariantKept]_vars

\* C14 witness: a PreloadAndFile reader has given all its preloaded bytes
\* and its archive bytes and is at the end of the data, still
\* PreloadAndFile.
C14_Witness ==
    \E t \in Tasks :
        /\ tasks[t].rd.variant = "PreloadAndFile"
        /\ AtEndOfData(t)
        /\ tasks[t].rd.preloaded_bytes_read > tasks[t].rd.preloaded_data_len
        /\ Len(ArchiveBytes(tasks[t].out)) = 2
        /\ Len(tasks[t].out) = 3

\* What C15 says of one read of a PreloadAndFile reader rd over the preload
\* buffer data, with a destination of d bytes, the archive read (if the
\* call makes one) having the outcome io. r is the number of preloaded
\* bytes left, a the count the archive read gives.
C15_ReadAsStated(rd, data, d, io) ==
    LET r    == rd.preloaded_data_len - rd.preloaded_data
        rest == SubSeq(data, rd.preloaded_data + 1,
                       rd.preloaded_data + Min(r, d))
        p    == poll_read(rd, data, blob, d, io)
        a    == IF rd.file.limit = 0 THEN 0
                ELSE Min(Min(io.n, d - r),
                         Min(rd.file.limit, Max(0, Len(blob) - rd.file.pos)))
    IN  /\ r >= d
            => /\ p.res = "Ok" /\ p.n = d /\ p.bytes = rest
               /\ ~p.asked /\ p.rd.file = rd.file
               /\ p.rd.preloaded_data = rd.preloaded_data + d
        /\ (0 < r /\ r < d)
            => /\ p.asked = (rd.file.limit > 0)
               /\ p.res = (IF rd.file.limit = 0 THEN "Ok" ELSE io.res)
               /\ p.rd.preloaded_data = rd.preloaded_data_len
               /\ p.res = "Ok"
                    => /\ p.n = r + a
                       /\ p.bytes = rest \o SubSeq(blob, rd.file.pos + 1,
                                                   rd.file.pos + a)
                       /\ p.rd.file = [pos   |-> rd.file.pos + a,
                                       limit |-> rd.file.limit - a]

\* C15: a read of a PreloadAndFile reader with r preloaded bytes left and a
\* destination of d bytes: when r >= d it gives d preloaded bytes and reads
\* nothing from the archive; when 0 < r < d it copies the r bytes to the
\* front of the destination, reads the archive once into the rest, and, the
\* archive read giving a bytes, gives r + a bytes. This holds of every read
\* that can be made in any state a reader can be in.
C15_PreloadPhaseRead ==
    \A t \in Tasks :
        (tasks[t].pc = "reading" /\ tasks[t].rd.variant = "PreloadAndFile")
        => \A d \in 1..MaxDst : \A io \in IoOutcomes :
               C15_ReadAsStated(tasks[t].rd, EntryOf(t).preload_data, d, io)

\* C15 witness: after a read that gave one of two preloaded bytes, a read
\* of 3 bytes gave the other one and two archive bytes.
C15_Witness ==
    \E t \in Tasks :
        /\ tasks[t].rd.variant = "PreloadAndFile"
        /\ tasks[t].res = "Ok" /\ tasks[t].n = 3
        /\ tasks[t].out = <<11, 12, 100, 101>>

\* C16: the archive phase (the branch of poll_read taken when
\* preloaded_bytes_read >= preloaded_data_len) is entered no later than the
\* first read after the preload buffer is used up: no read is made by a
\* PreloadAndFile reader whose cursor is at the end of the preload buffer
\* while preloaded_bytes_read is still below preloaded_data_len. Once in
\* the archive phase the reader stays in it and gives archive bytes only.
C16_ArchivePhaseAtExhaustion ==
    [][\A t \in Tasks :
         ( /\ tasks[t].pc = "reading"
           /\ tasks[t].rd.variant = "PreloadAndFile"
           /\ tasks'[t] # tasks[t]
           /\ tasks'[t].pc # "idle" )
         => /\ tasks[t].rd.preloaded_data = tasks[t].rd.preloaded_data_len
                => tasks[t].rd.preloaded_bytes_read
                     >= tasks[t].rd.preloaded_data_len
            /\ tasks[t].rd.preloaded_bytes_read
                   >= tasks[t].rd.preloaded_data_len
                => /\ tasks'[t].rd.preloaded_bytes_read
                        >= tasks'[t].rd.preloaded_data_len
                   /\ Len(ArchiveBytes(tasks'[t].out))
                          - Len(ArchiveBytes(tasks[t].out))
                        = Len(tasks'[t].out) - Len(tasks[t].out)]_vars

\* C17: for a reader of an entry with an archive path the storage calls are
\* one open, then one seek to archive_offset, then reads only. In every
\* state the archive was opened once and seeked at most once (once when the
\* reader exists), and before the first read the handle is at
\* archive_offset.
C17_OpenSeekOnce ==
    \A t \in Tasks :
        (tasks[t].pc # "idle" /\ HasPath(EntryOf(t)))
        => /\ tasks[t].opens = 1
           /\ tasks[t].seeks <= tasks[t].opens
           /\ HasHandle(t) <=> tasks[t].rd.variant # "none"
           /\ HasHandle(t) => tasks[t].seeks = 1
           /\ (HasHandle(t) /\ tasks[t].res = "none")
                => tasks[t].rd.file.pos
                     = EntryOf(t).dir_entry.archive_offset

\* C17, the reads: a read opens nothing and seeks nothing, and it is
\* sequential: the handle moves forward by the archive bytes the read gave,
\* from where the read before it ended.
C17_ReadsOnly ==
    \A t \in Tasks :
        (tasks[t].pc = "reading" /\ tasks'[t].pc # "idle")
        => /\ tasks'[t].opens = tasks[t].opens
           /\ tasks'[t].seeks = tasks[t].seeks
           /\ tasks'[t].rd.file.pos
                = tasks[t].rd.file.pos
                    + Len(ArchiveBytes(tasks'[t].out))
                    - Len(ArchiveBytes(tasks[t].out))
           /\ tasks'[t].rd.file.pos + tasks'[t].rd.file.limit
                = tasks[t].rd.file.pos + tasks[t].rd.file.limit

\* C17: one open, then one seek to archive_offset (C17_OpenSeekOnce in
\* every state), then sequential reads that open and seek nothing
\* (C17_ReadsOnly in every step).
C17_StorageOrder == []C17_OpenSeekOnce /\ [][C17_ReadsOnly]_vars

\* C17 witness: a reader seeked to offset 1 has read the archive byte there
\* and then made a read that was not ready, with one open and one seek
\* behind it and the handle at offset 2.
C17_Witness ==
    \E t \in Tasks :
        /\ HasHandle(t) /\ tasks[t].pc = "reading"
        /\ EntryOf(t).dir_entry.archive_offset = 1
        /\ tasks[t].res = "Pending"
        /\ ArchiveBytes(tasks[t].out) = <<101>>
        /\ tasks[t].rd.file.pos = 2
        /\ tasks[t].opens = 1 /\ tasks[t].seeks = 1

\* C18: in every state of a PreloadAndFile reader preloaded_bytes_read is
\* the number of preloaded bytes consumed so far, the position of the
\* cursor over the preload buffer, and so lies between 0 and
\* preloaded_data_len.
C18_CountIsCursor ==
    \A t \in Tasks :
        tasks[t].rd.variant = "PreloadAndFile"
        => /\ tasks[t].rd.preloaded_bytes_read = tasks[t].rd.preloaded_data
           /\ 0 <= tasks[t].rd.preloaded_bytes_read
           /\ tasks[t].rd.preloaded_bytes_read
                <= tasks[t].rd.preloaded_data_len

\* C19: get comes to an end when every suspended archive read is completed
\* in the end: a get that is reading stops reading.
C19_Terminates ==
    (tasks["a"].kind = "get" /\ tasks["a"].pc = "reading")
        ~> (tasks["a"].pc # "reading")

\* C19, how it ends and after how many reads: a finished get has had Ok(0)
\* (the end of the data) or an error from its last call, and in every state
\* the reads it has had Ok from are at most
\* preload_length + file_length + 1.
C19_BoundedReads ==
    \A t \in Tasks :
        tasks[t].kind = "get"
        => LET e == EntryOf(t) IN
           /\ tasks[t].oks <= Len(e.preload_data) + e.dir_entry.file_length + 1
           /\ tasks[t].pc = "done"
                => \/ tasks[t].res = "Err"
                   \/ tasks[t].res = "Ok" /\ tasks[t].n = 0

\* C19: get terminates when suspended archive reads are completed in the end
\* (C19_Terminates), ending on Ok(0) or on the first error after at most
\* preload_length + file_length + 1 reads that gave Ok (C19_BoundedReads in
\* every state).
C19_GetTerminates == C19_Terminates /\ []C19_BoundedReads

\* C19 witness: a get of an entry with two preloaded and two archive bytes
\* has ended at the end of the data after five reads that gave Ok: four of
\* one byte each and the last of none.
C19_Witness ==
    /\ GetDone("a") /\ tasks["a"].res = "Ok"
    /\ tasks["a"].out = <<11, 12, 100, 101>>
    /\ tasks["a"].oks = 5

====
